---- MODULE Spec2Model ----
(***************************************************************************)
(* The refresh engine of dashboard.py: fetch_single_price (one quote under *)
(* asyncio.wait_for), fetch_all_prices (batches run with asyncio.gather),  *)
(* prev_close_cache, the tables of create_dataframe and the loop of        *)
(* update_dashboard.                                                       *)
(*                                                                         *)
(* Execution model.  Everything runs on one asyncio event loop.  The two   *)
(* quote-source calls of fetch_data (Ticker.history, Ticker.info) are      *)
(* synchronous: fetch_data holds no await, so while one of them runs the   *)
(* event loop runs nothing else, its timers included.  A call that does    *)
(* not return is a behaviour in which the return step is never taken.      *)
(* The order in which the event loop runs the tasks of a batch is left     *)
(* open: every order is a behaviour of the model.                          *)
(*                                                                         *)
(* Values.  An optional value (Python's None or a number) is a sequence of *)
(* length 0 or 1.  A quote is the pair returned by fetch_single_price.     *)
(***************************************************************************)
EXTENDS Integers, Sequences, FiniteSets, TLC

\* ---------------------------------------------------------------- bounds

\* Number of instrument groups of the catalog and length of its first group
\* (the other groups hold one symbol each).
NumGroups == 2
MaxLen == 2
\* Largest batch_size the parameter of fetch_all_prices is drawn from.
MaxBatch == 2
\* Largest price and previous close of the change-percent calculation.
MaxPrice == 112
MaxClose == 101

\* ------------------------------------------------------ program constants

\* fetch_single_price(ticker, timeout=10)
Timeout == 10
\* await asyncio.sleep(10)
SleepInterval == 10

\* ------------------------------------------------------------- the values

None == <<>>
Some(v) == <<v>>
IsNone(o) == o = <<>>
Val(o) == o[1]

\* The pair (None, None) of lines 100 and 108.
NoQuote == [price |-> None, change |-> None]

\* ------------------------------------------------------------ the catalog

\* The dictionaries of lines 16-75, cut to NumGroups groups: ordered
\* name -> ticker mappings.  A ticker is a positive number; tickers differ.
GroupLen(g) == IF g = 1 THEN MaxLen ELSE 1
FirstTicker(g) == IF g = 1 THEN 0 ELSE MaxLen + g - 2
Catalog == [g \in 1..NumGroups |-> [k \in 1..GroupLen(g) |-> FirstTicker(g) + k]]
Symbols == 1..(MaxLen + NumGroups - 1)
\* list(assets.values()) and assets.keys(): the display name of a ticker is
\* modelled by the ticker's number.
Tickers(g) == Catalog[g]
AssetNames(g) == Catalog[g]
\* The last group is rendered by create_crypto_dataframe (line 253).
IsCrypto(g) == g = NumGroups

\* ------------------------------------------------------- the quote source

\* history["Close"].iloc[-1] of a ticker whose history is not empty.  The
\* price tells the ticker, so a quote carries the symbol it was fetched for.
Price(t) == 100 + 10 * t
\* What Ticker.history(period="1d") returns: an empty frame or a last close.
Histories(t) == {None, Some(Price(t))}
\* What Ticker.info.get("previousClose", None) returns.
PrevCloses == {None, Some(100)}

\* ------------------------------------------------------- pure functions

\* The integer nearest to num / den (den > 0), a tie going to the even one,
\* as round() does.
RoundHalfEven(num, den) ==
    LET q == num \div den
        r == num % den
    IN  IF 2 * r < den THEN q
        ELSE IF 2 * r > den THEN q + 1
        ELSE IF q % 2 = 0 THEN q ELSE q + 1

\* A change computed with the operands of the difference swapped.
change_percent_swapped(current_price, prev_close) ==
    IF ~IsNone(prev_close) /\ Val(prev_close) # 0
    THEN Some(RoundHalfEven((Val(prev_close) - current_price) * 10000, Val(prev_close)))
    ELSE None

\* Lines 93-97: round(((current_price - prev_close) / prev_close) * 100, 2)
\* if prev_close else None.  The result is in hundredths of a percent.
change_percent(current_price, prev_close) ==
    IF ~IsNone(prev_close) /\ Val(prev_close) # 0
    THEN Some(RoundHalfEven((current_price - Val(prev_close)) * 10000, Val(prev_close)))
    ELSE None

\* Lines 91-100: the pair fetch_data returns from the history it read and
\* the cached previous close.
\* A fetch_data without the test of line 91: the change is computed from an
\* empty history as from a price of 0.
fetch_data_unchecked(history, prev_close) ==
    [price |-> history,
     change |-> change_percent(IF IsNone(history) THEN 0 ELSE Val(history), prev_close)]
fetch_data_result(history, prev_close) ==
    IF ~IsNone(history)
    THEN [price |-> history, change |-> change_percent(Val(history), prev_close)]
    ELSE NoQuote

\* range(0, len(tickers), batch_size) still holds i (batch_size # 0).
InRange(i, stop, step) == IF step > 0 THEN i < stop ELSE i > stop

Min(a, b) == IF a < b THEN a ELSE b

\* A slice without its upper end: tickers[i:].
batch_rest(tickers, i, size) == SubSeq(tickers, i + 1, Len(tickers))
\* A slice that begins one ticker early and repeats the last one fetched.
batch_slice_overlap(tickers, i, size) ==
    SubSeq(tickers, IF i = 0 THEN 1 ELSE i, Min(i + size, Len(tickers)))
\* Line 116: tickers[i:i + batch_size] for 0 <= i < len(tickers).
batch_slice(tickers, i, size) == SubSeq(tickers, i + 1, Min(i + size, Len(tickers)))

\* The sizes of the successive batches of a group of n tickers.
RECURSIVE BatchSizesFrom(_, _, _)
BatchSizesFrom(i, n, size) ==
    IF InRange(i, n, size)
    THEN <<Len(batch_slice([k \in 1..n |-> k], i, size))>> \o BatchSizesFrom(i + size, n, size)
    ELSE <<>>

\* -------------------------------------------------------------- rendering

RECURSIVE Pow10(_)
Pow10(d) == IF d = 0 THEN 1 ELSE 10 * Pow10(d - 1)

\* The text "데이터 없음" of a cell without data.
NoData == [color |-> "none", text |-> None]
\* f"{price:.2f}" (create_dataframe) and f"{price:.4f}" (create_crypto_dataframe):
\* the decimal with d digits after the point, held as a count of 10^-d units.
\* A change is held in hundredths already, which f"{change:.2f}" prints.
Truthy(o) == ~IsNone(o) /\ Val(o) # 0
\* A price cell that prints 0 for a price that is missing.
price_cell_zero(q, d) ==
    IF ~IsNone(q.price)
    THEN [color |-> "plain", text |-> Some(Val(q.price) * Pow10(d))]
    ELSE [color |-> "plain", text |-> Some(0)]
price_cell(q, d) ==
    IF Truthy(q.change) /\ Val(q.change) > 0
    THEN [color |-> "red", text |-> Some(Val(q.price) * Pow10(d))]
    ELSE IF Truthy(q.change) /\ Val(q.change) < 0
    THEN [color |-> "blue", text |-> Some(Val(q.price) * Pow10(d))]
    ELSE IF ~IsNone(q.price)
    THEN [color |-> "plain", text |-> Some(Val(q.price) * Pow10(d))]
    ELSE NoData
change_cell(q) ==
    IF Truthy(q.change) /\ Val(q.change) > 0
    THEN [color |-> "red", text |-> q.change]
    ELSE IF Truthy(q.change) /\ Val(q.change) < 0
    THEN [color |-> "blue", text |-> q.change]
    ELSE NoData
\* Lines 122-146: one row per pair of zip(asset_names, data).
create_dataframe(data, asset_names, d) ==
    [k \in 1..Min(Len(asset_names), Len(data)) |->
        [name |-> asset_names[k], price |-> price_cell(data[k], d), change |-> change_cell(data[k])]]

\* ------------------------------------------------------------------ state

VARIABLES
    batch_size,        \* the batch_size parameter of fetch_all_prices
    prev_close_cache,  \* the dictionary of line 80: ticker -> previous close or None
    pc,                \* "start" before main() runs; then where update_dashboard is:
                       \* "fetch", "render", "time", "sleep"; "crashed" once it has raised
    group,             \* the group being fetched or rendered
    i,                 \* the loop variable of line 115
    tasks,             \* the tasks of the batch asyncio.gather is waiting for
    done_order,        \* the indices of the finished tasks of the last batch, in the order they finished
    returned,          \* ticker -> the quote its fetch_single_price returned in this cycle
    results,           \* the list `results` of fetch_all_prices
    fetched,           \* the lists of lines 230-235, one per group fetched in this cycle
    call_time,         \* how long the running fetch_data has held the event loop
    slept,             \* how long asyncio.sleep has lasted
    rendered,          \* the last call made on a placeholder
    tables,            \* tables handed to the placeholders in this cycle
    stamps,            \* time stamps handed to the placeholders in this cycle
    calc,              \* a change-percent calculation: its inputs and result
    slow               \* how long the fetches of this cycle have taken: "half" after a
                       \* quote source call longer than half the sleep interval, "yes"
                       \* after a second one (together longer than the interval), "no"
                       \* before; "unwatched" where the length is not observed

vars == <<batch_size, prev_close_cache, pc, group, i, tasks, done_order, returned, results,
          fetched, call_time, slept, rendered, tables, stamps, calc, slow>>

\* A task of fetch_single_price(ticker).  st is where it stands:
\*   "pending"  created by gather, not yet run
\*   "waiting"  in wait_for, its timer armed, fetch_data not yet run
\*   "expired"  as "waiting", the timer's time having passed
\*   "history"  fetch_data is inside Ticker.history
\*   "info"     fetch_data is inside Ticker.info; history is what it read
\*   "done"     fetch_single_price has returned result
\* lookup tells whether the task has entered Ticker.info (line 89).
NewTask(t) == [ticker |-> t, st |-> "pending", history |-> None, lookup |-> FALSE,
               result |-> NoQuote]

NoCalc == [price |-> 0, prev_close |-> None, done |-> FALSE, quote |-> NoQuote]
NoRender == [kind |-> "initial", group |-> 0, rows |-> <<>>]

\* The batch sizes update_dashboard may run with (it passes the default).
BatchSizes == 1..MaxBatch

InitWith(sizes, calcs, slows) ==
    /\ batch_size \in sizes
    /\ prev_close_cache = <<>>
    /\ pc = "start"
    /\ group = 1
    /\ i = 0
    /\ tasks = <<>>
    /\ done_order = <<>>
    /\ returned = <<>>
    /\ results = <<>>
    /\ fetched = <<>>
    /\ call_time = 0
    /\ slept = 0
    /\ rendered = NoRender
    /\ tables = 0
    /\ stamps = 0
    /\ calc \in calcs
    /\ slow \in slows

Init == InitWith(BatchSizes, {NoCalc}, {"unwatched"})

\* Lines 266-272: main() runs update_dashboard, whatever the configuration.
Main ==
    /\ pc = "start"
    /\ pc' = "fetch"
    /\ UNCHANGED <<batch_size, prev_close_cache, group, i, tasks, done_order, returned,
                   results, fetched, call_time, slept, rendered, tables, stamps, calc, slow>>

\* The event loop is held by a synchronous quote-source call.
InCall(k) == tasks[k].st \in {"history", "info"}
Blocked == \E k \in DOMAIN tasks : InCall(k)

\* ------------------------------------------------------- fetch_all_prices

\* Lines 115-118: the next batch of the group and one task per ticker of it.
CreateTasks ==
    /\ pc = "fetch"
    /\ tasks = <<>>
    /\ batch_size # 0
    /\ InRange(i, Len(Tickers(group)), batch_size)
    /\ tasks' = [k \in DOMAIN batch_slice(Tickers(group), i, batch_size) |->
                    NewTask(batch_slice(Tickers(group), i, batch_size)[k])]
    /\ done_order' = <<>>
    /\ UNCHANGED <<batch_size, prev_close_cache, pc, group, i, returned, results,
                   fetched, call_time, slept, rendered, tables, stamps, calc, slow>>

\* A wait that ends with the first task done.
gather_first_done == \E k \in DOMAIN tasks : tasks[k].st = "done"
\* asyncio.gather returns once each of its tasks is done.
gather_ready == \A k \in DOMAIN tasks : tasks[k].st = "done"
\* A gather that hands the results back in the order the tasks finished.
gather_in_completion_order == [k \in DOMAIN tasks |-> tasks[done_order[k]].result]
\* The list gather returns: the results in the order of its arguments.
gather_results == [k \in DOMAIN tasks |-> tasks[k].result]

\* Line 118: results.extend(await asyncio.gather(*tasks)), then the next i.
GatherDone ==
    /\ pc = "fetch"
    /\ tasks # <<>>
    /\ gather_ready
    /\ results' = results \o gather_results
    /\ i' = i + batch_size
    /\ tasks' = <<>>
    /\ UNCHANGED <<batch_size, prev_close_cache, pc, group, done_order, returned, fetched, call_time,
                   slept, rendered, tables, stamps, calc, slow>>

\* A return that hands the group's table over before the next group's fetch.
ReturnAndRender ==
    /\ pc = "fetch"
    /\ tasks = <<>>
    /\ batch_size # 0
    /\ ~InRange(i, Len(Tickers(group)), batch_size)
    /\ fetched' = Append(fetched, results)
    /\ results' = <<>>
    /\ i' = 0
    /\ rendered' = [kind |-> "table", group |-> group,
                    rows |-> create_dataframe(results, AssetNames(group),
                                              IF IsCrypto(group) THEN 4 ELSE 2)]
    /\ tables' = tables + 1
    /\ IF group < NumGroups
       THEN group' = group + 1 /\ pc' = "fetch"
       ELSE group' = 1 /\ pc' = "time"
    /\ UNCHANGED <<batch_size, prev_close_cache, tasks, done_order, returned, call_time,
                   slept, stamps, calc, slow>>

\* Line 120 and lines 230-235: the range is exhausted, results is returned
\* and bound to the group's variable; the next group follows, or the tables.
ReturnResults ==
    /\ pc = "fetch"
    /\ tasks = <<>>
    /\ batch_size # 0
    /\ ~InRange(i, Len(Tickers(group)), batch_size)
    /\ fetched' = Append(fetched, results)
    /\ results' = <<>>
    /\ i' = 0
    /\ IF group < NumGroups
       THEN group' = group + 1 /\ pc' = "fetch"
       ELSE group' = 1 /\ pc' = "render"
    /\ UNCHANGED <<batch_size, prev_close_cache, tasks, done_order, returned, call_time,
                   slept, rendered, tables, stamps, calc, slow>>

\* Line 115 with batch_size = 0: range() raises ValueError, which nothing
\* catches: update_dashboard and asyncio.run end with it.
RangeRaises ==
    /\ pc = "fetch"
    /\ tasks = <<>>
    /\ batch_size = 0
    /\ pc' = "crashed"
    /\ UNCHANGED <<batch_size, prev_close_cache, group, i, tasks, done_order, returned, results,
                   fetched, call_time, slept, rendered, tables, stamps, calc, slow>>

\* ----------------------------------------------------- fetch_single_price

\* The event loop runs a task of the batch for the first time: line 103,
\* wait_for arms its timer and waits for fetch_data.
StartFetch(k) ==
    /\ pc = "fetch"
    /\ ~Blocked
    /\ tasks[k].st = "pending"
    /\ tasks' = [tasks EXCEPT ![k].st = "waiting"]
    /\ UNCHANGED <<batch_size, prev_close_cache, pc, group, i, done_order, returned, results,
                   fetched, call_time, slept, rendered, tables, stamps, calc, slow>>

\* Lines 86-87: fetch_data runs and enters Ticker.history.
BeginFetchData(k) ==
    /\ pc = "fetch"
    /\ ~Blocked
    /\ tasks[k].st \in {"waiting", "expired"}
    /\ tasks' = [tasks EXCEPT ![k].st = "history"]
    /\ call_time' = 0
    /\ UNCHANGED <<batch_size, prev_close_cache, pc, group, i, done_order, returned, results,
                   fetched, slept, rendered, tables, stamps, calc, slow>>

\* Time passes while a quote-source call holds the event loop.
CallTick ==
    /\ Blocked
    /\ call_time <= Timeout
    /\ call_time' = call_time + 1
    /\ UNCHANGED <<batch_size, prev_close_cache, pc, group, i, tasks, done_order, returned, results,
                   fetched, slept, rendered, tables, stamps, calc, slow>>

\* The timer of wait_for has run out for a task that waited through a call
\* of at least `timeout`.
timer_expired == call_time >= Timeout

\* The quotes returned in this cycle, with q for ticker t.
record_return(t, q) == [s \in DOMAIN returned \cup {t} |-> IF s = t THEN q ELSE returned[s]]

\* fetch_data ends (it returns q, or raises and q is the pair of line 108):
\* the task is done with q, and the event loop is free again.
Finish(k, q) ==
    /\ tasks' = [j \in DOMAIN tasks |->
                    IF j = k THEN [tasks[j] EXCEPT !.st = "done", !.history = None, !.result = q]
                    ELSE IF tasks[j].st = "waiting" /\ timer_expired
                    THEN [tasks[j] EXCEPT !.st = "expired"]
                    ELSE tasks[j]]
    /\ done_order' = Append(done_order, k)
    /\ returned' = record_return(tasks[k].ticker, q)
    /\ slow' = IF 2 * call_time <= SleepInterval THEN slow
               ELSE IF slow = "no" THEN "half"
               ELSE IF slow = "half" THEN "yes"
               ELSE slow
    /\ call_time' = 0

\* A fetch that looks the previous close up and stores it every time.
cache_always_miss(t) == TRUE
\* A test that also takes a cached None for a miss.
cache_miss_when_none(t) ==
    t \notin DOMAIN prev_close_cache \/ prev_close_cache[t] = None
\* Line 88: ticker not in prev_close_cache.
cache_miss(t) == t \notin DOMAIN prev_close_cache

\* Line 87 returns.  With the previous close cached, lines 90-100 follow;
\* otherwise Ticker.info is entered (line 89).
HistoryReturns(k, h) ==
    /\ tasks[k].st = "history"
    /\ IF cache_miss(tasks[k].ticker)
       THEN /\ tasks' = [tasks EXCEPT ![k].st = "info", ![k].history = h, ![k].lookup = TRUE]
            /\ UNCHANGED <<done_order, returned, call_time, slow>>
       ELSE Finish(k, fetch_data_result(h, prev_close_cache[tasks[k].ticker]))
    /\ UNCHANGED <<batch_size, prev_close_cache, pc, group, i, results,
                   fetched, slept, rendered, tables, stamps, calc>>

\* Line 87 raises: lines 106-108.
HistoryRaises(k) ==
    /\ tasks[k].st = "history"
    /\ Finish(k, NoQuote)
    /\ UNCHANGED <<batch_size, prev_close_cache, pc, group, i, results,
                   fetched, slept, rendered, tables, stamps, calc>>

\* Line 89: the dictionary after prev_close_cache[ticker] = v.
cache_put(t, v) == [s \in DOMAIN prev_close_cache \cup {t} |->
                        IF s = t THEN v ELSE prev_close_cache[s]]

\* Line 89 returns v, which is cached; lines 90-100 follow.
InfoReturns(k, v) ==
    /\ tasks[k].st = "info"
    /\ prev_close_cache' = cache_put(tasks[k].ticker, v)
    /\ Finish(k, fetch_data_result(tasks[k].history, prev_close_cache'[tasks[k].ticker]))
    /\ UNCHANGED <<batch_size, pc, group, i, results,
                   fetched, slept, rendered, tables, stamps, calc>>

\* An error path that records "no previous close" for the ticker.
InfoRaisesCachingNone(k) ==
    /\ tasks[k].st = "info"
    /\ prev_close_cache' = cache_put(tasks[k].ticker, None)
    /\ Finish(k, NoQuote)
    /\ UNCHANGED <<batch_size, pc, group, i, results,
                   fetched, slept, rendered, tables, stamps, calc>>

\* Line 89 raises: lines 106-108, nothing is cached.
InfoRaises(k) ==
    /\ tasks[k].st = "info"
    /\ Finish(k, NoQuote)
    /\ UNCHANGED <<batch_size, prev_close_cache, pc, group, i, results,
                   fetched, slept, rendered, tables, stamps, calc>>

\* Lines 103-105 and 108: the timer of wait_for fires before fetch_data has
\* run; fetch_data is cancelled and TimeoutError is caught.  This is the only
\* way to line 105: once fetch_data runs it ends before any timer is served.
\* (An event loop that serves its ready tasks first in, first out runs
\* fetch_data before the timer; the model leaves the order open.)
TimeoutFires(k) ==
    /\ pc = "fetch"
    /\ ~Blocked
    /\ tasks[k].st = "expired"
    /\ tasks' = [tasks EXCEPT ![k].st = "done", ![k].result = NoQuote]
    /\ done_order' = Append(done_order, k)
    /\ returned' = record_return(tasks[k].ticker, NoQuote)
    /\ UNCHANGED <<batch_size, prev_close_cache, pc, group, i, results,
                   fetched, call_time, slept, rendered, tables, stamps, calc, slow>>

\* ------------------------------------------------------- update_dashboard

\* A rendering that writes the time stamp along with each table.
RenderAndStamp ==
    /\ pc = "render"
    /\ rendered' = [kind |-> "table", group |-> group,
                    rows |-> create_dataframe(fetched[group], AssetNames(group),
                                              IF IsCrypto(group) THEN 4 ELSE 2)]
    /\ tables' = tables + 1
    /\ stamps' = stamps + 1
    /\ IF group < NumGroups
       THEN group' = group + 1 /\ pc' = "render"
       ELSE group' = 1 /\ pc' = "time"
    /\ UNCHANGED <<batch_size, prev_close_cache, i, tasks, done_order, returned, results,
                   fetched, call_time, slept, calc, slow>>

\* Lines 238-255: the table of the group is handed to its placeholder.
Render ==
    /\ pc = "render"
    /\ rendered' = [kind |-> "table", group |-> group,
                    rows |-> create_dataframe(fetched[group], AssetNames(group),
                                              IF IsCrypto(group) THEN 4 ELSE 2)]
    /\ tables' = tables + 1
    /\ IF group < NumGroups
       THEN group' = group + 1 /\ pc' = "render"
       ELSE group' = 1 /\ pc' = "time"
    /\ UNCHANGED <<batch_size, prev_close_cache, i, tasks, done_order, returned, results,
                   fetched, call_time, slept, stamps, calc, slow>>

\* Lines 258-263: the time stamp is handed over and the sleep begins.  The
\* lists of lines 230-235 are not read again before they are rebound.
UpdateTime ==
    /\ pc = "time"
    /\ rendered' = [kind |-> "time", group |-> 0, rows |-> <<>>]
    /\ stamps' = stamps + 1
    /\ pc' = "sleep"
    /\ slept' = 0
    /\ fetched' = <<>>
    /\ returned' = <<>>
    /\ UNCHANGED <<batch_size, prev_close_cache, group, i, tasks, done_order, results,
                   call_time, tables, calc, slow>>

\* Time passes during asyncio.sleep(10).
SleepTick ==
    /\ pc = "sleep"
    /\ slept < SleepInterval
    /\ slept' = slept + 1
    /\ UNCHANGED <<batch_size, prev_close_cache, pc, group, i, tasks, done_order, returned, results,
                   fetched, call_time, rendered, tables, stamps, calc, slow>>

\* A sleep of the 5 seconds the comment of line 262 speaks of.
sleep_over_at_5 == slept >= 5
\* A sleep that is cut short after a cycle that took longer than the interval.
sleep_over_or_slow == slow = "yes" \/ slept >= SleepInterval
\* asyncio.sleep(10) returns.
sleep_over == slept >= SleepInterval

\* Line 263 returns and line 228 starts the next cycle.
Wake ==
    /\ pc = "sleep"
    /\ sleep_over
    /\ pc' = "fetch"
    /\ slept' = 0
    /\ tables' = 0
    /\ stamps' = 0
    /\ slow' = IF slow = "unwatched" THEN slow ELSE "no"
    /\ UNCHANGED <<batch_size, prev_close_cache, group, i, tasks, done_order, returned, results,
                   fetched, call_time, rendered, calc>>

Next ==
    \/ Main
    \/ CreateTasks
    \/ \E k \in DOMAIN tasks : StartFetch(k)
    \/ \E k \in DOMAIN tasks : BeginFetchData(k)
    \/ CallTick
    \/ \E k \in DOMAIN tasks : \E h \in Histories(tasks[k].ticker) : HistoryReturns(k, h)
    \/ \E k \in DOMAIN tasks : HistoryRaises(k)
    \/ \E k \in DOMAIN tasks : \E v \in PrevCloses : InfoReturns(k, v)
    \/ \E k \in DOMAIN tasks : InfoRaises(k)
    \/ \E k \in DOMAIN tasks : TimeoutFires(k)
    \/ GatherDone
    \/ ReturnResults
    \/ Render
    \/ UpdateTime
    \/ SleepTick
    \/ Wake

Spec == Init /\ [][Next]_vars

\* The loop with the length of its cycles observed, run with one batch size
\* as update_dashboard does.
InitSlow == InitWith({MaxBatch}, {NoCalc}, {"no"})
SpecSlow == InitSlow /\ [][Next]_vars

\* fetch_all_prices called with any batch_size, the ones a configuration
\* must not have included.
AnyBatchSizes == (0 - 1)..MaxBatch
InitCfg == InitWith(AnyBatchSizes, {NoCalc}, {"unwatched"})
NextCfg == Next \/ RangeRaises
SpecCfg == InitCfg /\ [][NextCfg]_vars

\* Lines 91-98 alone, on a history that holds a price and a cached previous
\* close drawn from a range of values.
CalcPrices == 0..MaxPrice
CalcCloses == {None} \cup {Some(c) : c \in 0..MaxClose}
InitCalc ==
    InitWith({1}, {[price |-> p, prev_close |-> c, done |-> FALSE, quote |-> NoQuote] :
                      p \in CalcPrices, c \in CalcCloses}, {"unwatched"})
Calc ==
    /\ ~calc.done
    /\ calc' = [calc EXCEPT !.done = TRUE,
                            !.quote = fetch_data_result(Some(calc.price), calc.prev_close)]
    /\ UNCHANGED <<batch_size, prev_close_cache, pc, group, i, tasks, done_order, returned,
                   results, fetched, call_time, slept, rendered, tables, stamps, slow>>
NextCalc == Calc
SpecCalc == InitCalc /\ [][NextCalc]_vars

\* ------------------------------------------------------------- the claims

\* The quote the fetch of ticker t returned in this cycle stands at q.
IsQuoteOf(q, t) == t \in DOMAIN returned /\ q = returned[t]

\* C1: whatever the order in which the fetches of a batch finish, the list
\* fetch_all_prices builds for a group and a positive batch_size holds, at
\* place j, the quote returned by the fetch of the group's j-th ticker, and
\* the list it returns is as long as the group.
C1_OrderPreserved ==
    batch_size > 0 =>
        /\ \A g \in DOMAIN fetched :
              /\ Len(fetched[g]) = Len(Tickers(g))
              /\ \A j \in DOMAIN fetched[g] : IsQuoteOf(fetched[g][j], Tickers(g)[j])
        /\ pc = "fetch" =>
              /\ Len(results) <= Len(Tickers(group))
              /\ \A j \in DOMAIN results : IsQuoteOf(results[j], Tickers(group)[j])

\* C1 witness: a batch of two whose second fetch finished first has been
\* gathered, each fetch with a price of its own.
C1_Witness ==
    /\ pc = "fetch"
    /\ tasks = <<>>
    /\ done_order = <<2, 1>>
    /\ Len(results) = 2
    /\ ~IsNone(results[1].price)
    /\ ~IsNone(results[2].price)
    /\ results[1] # results[2]

\* C2: an entry of prev_close_cache, a number or None, is never changed and
\* never removed by any step.
C2_CacheMonotonic ==
    [][\A t \in DOMAIN prev_close_cache :
          /\ t \in DOMAIN prev_close_cache'
          /\ prev_close_cache'[t] = prev_close_cache[t]]_vars

\* C2 witness: a fetch has read a price and returned without entering
\* Ticker.info, its ticker cached by an earlier cycle with None.
C2_Witness ==
    \E k \in DOMAIN tasks :
        /\ tasks[k].st = "done"
        /\ ~tasks[k].lookup
        /\ ~IsNone(tasks[k].result.price)
        /\ prev_close_cache[tasks[k].ticker] = None

\* C3: whatever the quote source does for the tickers of a batch (a price,
\* no data, an error, no answer within the timeout), a fetch whose quote
\* source call failed or ran beyond the timeout ends with (None, None), and
\* the step that ends it leaves the quotes of the other fetches of the batch
\* as they were.
C3_FailureIsolation ==
    [][\A k \in DOMAIN tasks :
          (tasks[k].st # "done" /\ tasks'[k].st = "done") =>
              /\ (HistoryRaises(k) \/ InfoRaises(k) \/ call_time > Timeout)
                    => tasks'[k].result = NoQuote
              /\ \A j \in DOMAIN tasks \ {k} : tasks'[j].result = tasks[j].result]_vars

\* C4: a fetch does not hold its batch beyond the timeout: no quote source
\* call is still running once more than `timeout` has passed.
C4_TimeoutEndsFetch ==
    \A k \in DOMAIN tasks : InCall(k) => call_time <= Timeout

\* C5: with a price p read and a previous close c that is a number other
\* than 0, the change returned is ((p - c) / c) * 100 to the nearest
\* hundredth (10.00 for p = 110, c = 100; -5.00 for p = 95, c = 100); with
\* c None or 0 the change is None; the price returned is p in both cases.
C5_ChangePercent ==
    calc.done =>
        /\ calc.quote.price = Some(calc.price)
        /\ IF Truthy(calc.prev_close)
           THEN LET c == Val(calc.prev_close)
                    exact == (calc.price - c) * 10000
                    diff == Val(calc.quote.change) * c - exact
                IN  /\ ~IsNone(calc.quote.change)
                    /\ 2 * diff <= c
                    /\ 2 * diff >= 0 - c
           ELSE calc.quote.change = None
        /\ (calc.price = 110 /\ calc.prev_close = Some(100)) => calc.quote.change = Some(1000)
        /\ (calc.price = 95 /\ calc.prev_close = Some(100)) => calc.quote.change = Some(0 - 500)

\* C5 witness: the change of p = 95 against c = 100 has been computed.
C5_Witness ==
    /\ calc.done
    /\ calc.price = 95
    /\ calc.prev_close = Some(100)
    /\ calc.quote = [price |-> Some(95), change |-> Some(0 - 500)]

\* The fetches begun and not yet ended.
InFlight == {k \in DOMAIN tasks : tasks[k].st \in {"waiting", "expired", "history", "info"}}

\* C6: with a positive batch_size, at most batch_size fetches are in flight,
\* and the tasks alive are those of one batch of the group being fetched.
C6_BoundedParallelism ==
    batch_size > 0 =>
        /\ Cardinality(InFlight) <= batch_size
        /\ Len(tasks) <= batch_size
        /\ tasks # <<>> =>
              /\ pc = "fetch"
              /\ i < Len(Tickers(group))
              /\ \A k \in DOMAIN tasks : tasks[k].ticker = Tickers(group)[i + k]

\* C6 witness: two fetches of a batch are in flight at once.
C6_Witness ==
    /\ batch_size = 2
    /\ Cardinality(InFlight) = 2

\* C7: the batches of a group are consecutive slices of at most batch_size
\* tickers (5 then 4 for 9 tickers and batch_size 5), and while the tasks of
\* a batch exist every fetch that comes before the batch has returned.
C7_ChunkBarrier ==
    /\ BatchSizesFrom(0, 9, 5) = <<5, 4>>
    /\ (batch_size > 0 /\ tasks # <<>>) =>
          /\ Len(results) = i
          /\ Len(tasks) = Min(batch_size, Len(Tickers(group)) - i)
          /\ \A j \in 1..i : Tickers(group)[j] \in DOMAIN returned
          /\ \A h \in 1..(group - 1) : \A j \in DOMAIN Tickers(h) :
                Tickers(h)[j] \in DOMAIN returned

\* C7 witness: a fetch of the second batch of a group has begun.
C7_Witness ==
    /\ i > 0
    /\ InFlight # {}

C9_RenderThenIdle ==
    batch_size > 0 =>
        /\ stamps <= 1
        /\ stamps = 1 <=> pc = "sleep"
        /\ pc \in {"time", "sleep"} => tables = NumGroups
        /\ pc = "fetch" => tables = 0
        /\ pc \in {"render", "time"} =>
              /\ Len(fetched) = NumGroups
              /\ \A g \in 1..NumGroups : Len(fetched[g]) = Len(Tickers(g))
        /\ pc = "render" => tables = group - 1
        /\ (pc = "sleep" => rendered.kind = "time")
        /\ (rendered.kind = "table" /\ pc \in {"render", "time"}) =>
              /\ rendered.group = tables
              /\ Len(rendered.rows) = Len(Tickers(rendered.group))

\* C9 witness: the loop sleeps, every table and the time stamp handed over.
C9_Witness ==
    /\ pc = "sleep"
    /\ tables = NumGroups
    /\ stamps = 1

\* C10: with a batch_size that is not positive, main does not run the loop:
\* no fetch is issued and no list shorter than its group is returned.
C10_RefusesBadConfig ==
    batch_size <= 0 =>
        /\ pc = "start"
        /\ tasks = <<>>
        /\ \A g \in DOMAIN fetched : Len(fetched[g]) = Len(Tickers(g))

\* C11: the table handed over for a group holds one row per instrument of
\* the group, made from the quote its fetch returned in this cycle: the
\* "no data" text where that quote has no price, whatever earlier cycles
\* read, and that price (with its 2 or 4 decimals) where it has one.
C11_NoStaleNoZero ==
    (batch_size > 0 /\ rendered.kind = "table" /\ pc \in {"render", "time"}) =>
        LET g == rendered.group
            d == IF IsCrypto(g) THEN 4 ELSE 2
        IN  /\ Len(rendered.rows) = Len(Tickers(g))
            /\ \A k \in DOMAIN rendered.rows :
                  LET q == returned[Tickers(g)[k]]
                      row == rendered.rows[k]
                  IN  /\ row.name = AssetNames(g)[k]
                      /\ IF IsNone(q.price)
                         THEN row.price = NoData /\ row.change = NoData
                         ELSE row.price.text = Some(Val(q.price) * Pow10(d))

\* C11 witness: a table of two rows is handed over, the first without data
\* for a ticker whose previous close is cached, the second with its price.
C11_Witness ==
    /\ rendered.kind = "table"
    /\ pc = "render"
    /\ Len(rendered.rows) = 2
    /\ rendered.rows[1].price = NoData
    /\ rendered.rows[1].name \in DOMAIN prev_close_cache
    /\ prev_close_cache[rendered.rows[1].name] = Some(100)
    /\ rendered.rows[2].price.text = Some(Price(rendered.rows[2].name) * 100)

\* C12: the fetches of a chunk run concurrently: while the quote source call
\* of an earlier symbol of the chunk has not returned, a later symbol of the
\* chunk that has not yet made its call can proceed towards it and make it.
C12_ConcurrentCalls ==
    \A k \in DOMAIN tasks : \A j \in DOMAIN tasks :
        (k < j /\ InCall(k) /\ tasks[j].st \in {"pending", "waiting", "expired"}) =>
            ENABLED (StartFetch(j) \/ BeginFetchData(j))

C14_AbsentIsPermanent ==
    [][\A t \in DOMAIN prev_close_cache :
          prev_close_cache[t] = None =>
              /\ t \in DOMAIN prev_close_cache'
              /\ prev_close_cache'[t] = None
              /\ \A k \in DOMAIN tasks' :
                    tasks'[k].ticker = t =>
                        /\ tasks'[k].st # "info"
                        /\ IsNone(tasks'[k].result.change)
              /\ t \in DOMAIN returned' => IsNone(returned'[t].change)]_vars

\* C14 witness: in a cycle after the first, a fetch of a ticker cached with
\* None has returned a price without a change and without a lookup.
C14_Witness ==
    /\ rendered.kind = "time"
    /\ pc = "fetch"
    /\ \E k \in DOMAIN tasks :
          /\ tasks[k].st = "done"
          /\ ~tasks[k].lookup
          /\ tasks[k].ticker \in DOMAIN returned
          /\ returned[tasks[k].ticker] = [price |-> Some(Price(tasks[k].ticker)), change |-> None]
          /\ tasks[k].ticker \in DOMAIN prev_close_cache
          /\ prev_close_cache[tasks[k].ticker] = None

\* C15: in a cycle every ticker of the catalog is fetched exactly once: a
\* batch holds no ticker twice, a ticker whose fetch has returned in the cycle
\* (with a quote or with the pair of None) has no further task in the cycle,
\* and when the tables are made every ticker has returned once, in the cycles
\* after the first as in the first.
C15_OncePerCycle ==
    /\ \A j \in DOMAIN tasks : \A k \in DOMAIN tasks :
          tasks[j].ticker = tasks[k].ticker => j = k
    /\ \A k \in DOMAIN tasks :
          /\ tasks[k].ticker \in {Tickers(group)[n] : n \in DOMAIN Tickers(group)}
          /\ tasks[k].st = "done" <=> tasks[k].ticker \in DOMAIN returned
    /\ pc = "fetch" =>
          DOMAIN returned \subseteq
              UNION {{Tickers(g)[n] : n \in DOMAIN Tickers(g)} : g \in 1..group}
    /\ pc \in {"render", "time"} => DOMAIN returned = Symbols
    /\ pc = "sleep" => returned = <<>>

\* C15 witness: in a cycle after the first, a ticker whose earlier fetches
\* all failed (nothing is cached for it) is inside a quote source call again,
\* while another ticker has already returned in this cycle.
C15_Witness ==
    /\ pc = "fetch"
    /\ rendered.kind = "time"
    /\ returned # <<>>
    /\ \E k \in DOMAIN tasks :
          /\ InCall(k)
          /\ tasks[k].ticker \notin DOMAIN prev_close_cache

\* C16 as the specification words it: when the fetches of a cycle took longer
\* than the interval, the next cycle can start as soon as the cycle is over.
C16_SlowCycleStartsAtOnce ==
    (pc = "sleep" /\ slow = "yes") => ENABLED Wake

\* C16: after a cycle whose fetches took longer than the interval the loop
\* sleeps the full interval like after any other cycle: it leaves the sleep
\* only when the sleep has lasted SleepInterval, no fetch is outstanding while
\* it sleeps, and what follows is one cycle that begins with nothing fetched
\* or shown.
C16_SlowCycleStillSleeps ==
    [][ (pc = "sleep" /\ slow = "yes") =>
            /\ tasks = <<>> /\ tasks' = <<>>
            /\ slept' >= slept \/ pc' # "sleep"
            /\ pc' # "sleep" =>
                  /\ slept = SleepInterval
                  /\ pc' = "fetch"
                  /\ slow' = "no"
                  /\ returned' = <<>> /\ fetched' = <<>>
                  /\ tables' = 0 /\ stamps' = 0 ]_vars

\* C16 witness: the sleep after a cycle whose quote source calls took longer
\* than the interval has lasted the whole interval.
C16_Witness ==
    /\ pc = "sleep"
    /\ slow = "yes"
    /\ slept = SleepInterval

\* C18: a fetch that ends with an exception of Ticker.history or Ticker.info,
\* or with the timeout, leaves prev_close_cache as it was and returns the
\* pair of None, also when a price had been read; and a fetch of a ticker
\* that is not cached, as after such a failure, gets past Ticker.history only
\* into the lookup of Ticker.info, or ends there the same way.
C18_FailedFetchLeavesCache ==
    [][\A k \in DOMAIN tasks :
          /\ (HistoryRaises(k) \/ InfoRaises(k) \/ TimeoutFires(k)) =>
                /\ prev_close_cache' = prev_close_cache
                /\ tasks'[k].st = "done"
                /\ tasks'[k].result = NoQuote
                /\ returned'[tasks[k].ticker] = NoQuote
          /\ (/\ tasks[k].st = "history"
              /\ tasks[k].ticker \notin DOMAIN prev_close_cache
              /\ tasks'[k].st # "history") =>
                \/ tasks'[k].st = "info" /\ tasks'[k].lookup
                \/ /\ tasks'[k].st = "done"
                   /\ tasks'[k].result = NoQuote
                   /\ prev_close_cache' = prev_close_cache]_vars

\* C18 witness: in a cycle after the first, a fetch that has read a price is
\* inside Ticker.info: the earlier fetches of its ticker cached nothing.
C18_Witness ==
    /\ rendered.kind = "time"
    /\ pc = "fetch"
    /\ \E k \in DOMAIN tasks :
          /\ tasks[k].st = "info"
          /\ tasks[k].lookup
          /\ tasks[k].history = Some(Price(tasks[k].ticker))
          /\ tasks[k].ticker \notin DOMAIN prev_close_cache

\* C19: every quote a fetch has returned, wherever it is kept (the task's
\* result, the list of the batch, the lists of the groups), has a change only
\* if it has a price; and a fetch whose Ticker.history returned nothing for a
\* ticker that is not cached still goes on to Ticker.info, whose value it
\* caches while it returns the pair of None.
C19_WellFormedQuotes ==
    [][ /\ \A k \in DOMAIN tasks' :
              IsNone(tasks'[k].result.price) => IsNone(tasks'[k].result.change)
        /\ \A t \in DOMAIN returned' :
              IsNone(returned'[t].price) => IsNone(returned'[t].change)
        /\ \A n \in DOMAIN results' :
              IsNone(results'[n].price) => IsNone(results'[n].change)
        /\ \A g \in DOMAIN fetched' : \A n \in DOMAIN fetched'[g] :
              IsNone(fetched'[g][n].price) => IsNone(fetched'[g][n].change)
        /\ \A k \in DOMAIN tasks :
              /\ (HistoryReturns(k, None) /\ tasks[k].ticker \notin DOMAIN prev_close_cache) =>
                    tasks'[k].st = "info" /\ IsNone(tasks'[k].history)
              /\ (tasks[k].st = "info" /\ IsNone(tasks[k].history)) =>
                    \A v \in PrevCloses :
                        InfoReturns(k, v) =>
                            /\ prev_close_cache'[tasks[k].ticker] = v
                            /\ tasks'[k].result = NoQuote ]_vars

\* C19 witness: a fetch that found no price has looked the previous close up
\* and cached it, and has returned the pair of None.
C19_Witness ==
    \E k \in DOMAIN tasks :
        /\ tasks[k].st = "done"
        /\ tasks[k].lookup
        /\ tasks[k].result = NoQuote
        /\ tasks[k].ticker \in DOMAIN prev_close_cache
        /\ prev_close_cache[tasks[k].ticker] = Some(100)

====
